---- MODULE Spec2Model ----
(***************************************************************************)
(* Model of src/src/scan.rs of btlescan:                                   *)
(*   bluetooth_scan      - the discovery loop: takes adapter events, waits  *)
(*                         out the pause flag, appends one DeviceInfo per   *)
(*                         resolved DeviceDiscovered event and sends a      *)
(*                         clone of the accumulated list on an mpsc channel *)
(*   get_characteristics - connect under a 10 second timeout, then flatten  *)
(*                         the characteristic set of the peripheral         *)
(* The adapter (event source, peripheral and property lookup), the writer  *)
(* of the pause flag and the receiver of the channel are the environment.  *)
(***************************************************************************)
EXTENDS Integers, Sequences, FiniteSets, TLC

\* ---------------------------------------------------------------- bounds
\* events the source delivers in one run
MaxEvents == 2
\* capacity of the mpsc channel handed to bluetooth_scan
ChanCap == 1
\* times the controller sets the pause flag in one run
MaxPauses == 1

\* descriptors a characteristic can have
MaxDescriptors == 2
\* seconds the clock of a get_characteristics call can show
MaxElapsed == 12

\* identities the adapter reports
Ids == {"a", "b"}

VARIABLES
    \* bluetooth_scan
    pc,              \* position of the task: the await it is suspended on
    result,          \* "running" or the value the function returned
    scanStarts,      \* calls of central.start_scan
    event,           \* the event bound by `while let Some(event)`
    device,          \* the peripheral bound by `if let Ok(device)`
    properties,      \* what device.properties().await returned
    devices_info,    \* the accumulated Vec<DeviceInfo>
    \* environment of bluetooth_scan
    pause_signal,    \* the shared AtomicBool
    pauses,          \* times the controller has set the flag
    stream,          \* events delivered by the source and not yet taken
    srcDone,         \* the event stream has ended
    delivered,       \* history: every event the source delivered, in order
    chan,            \* snapshots buffered in the channel
    received,        \* snapshots the receiver has taken, in order
    rxClosed,        \* the receiver has been closed or dropped
    pausedSinceTake, \* history: flag set ever since the event was taken
    lookupFailed,    \* history: a peripheral or property lookup failed
    pausedDelivery,  \* history: index of the last event delivered with the flag set
    resolved,        \* history: delivery indices whose peripheral lookup returned Ok
    \* get_characteristics
    gc_pc,           \* position of the call
    peripheral,      \* the services the peripheral exposes
    connectState,    \* the connect operation: pending, Ok, Err or cancelled
    elapsed,         \* seconds since timeout(..) was created
    charReads,       \* calls of peripheral.characteristics()
    gc_iter,         \* what is left of the characteristics being iterated
    gc_vec,          \* the `result` Vec being built
    gc_result        \* the value get_characteristics returned

scanVars == <<pc, result, scanStarts, event, device, properties, devices_info>>
envVars == <<pause_signal, pauses, stream, srcDone, delivered, chan, received,
             rxClosed, pausedSinceTake, lookupFailed, pausedDelivery, resolved>>
gcVars == <<gc_pc, peripheral, connectState, elapsed, charReads, gc_iter, gc_vec,
            gc_result>>
vars == <<scanVars, envVars, gcVars>>

\* ------------------------------------------------------------ data model
\* Option<T> is a sequence of length 0 (None) or 1 (Some)
NoneOpt == <<>>
SomeOpt(x) == <<x>>

\* values of Result<Vec<Characteristic>, Box<dyn Error>>
NoResult == [tag |-> "None"]
ErrElapsed == [tag |-> "Err", err |-> "Elapsed"]
ErrConnect == [tag |-> "Err", err |-> "ConnectError"]
OkList(v) == [tag |-> "Ok", val |-> v]

NoEvent == [kind |-> "NoEvent", id |-> "-"]
NoDevice == "-"
Unset == [tag |-> "Unset"]
PropsErr == [tag |-> "Err"]
PropsNone == [tag |-> "Ok", val |-> NoneOpt]
PropsSome(p) == [tag |-> "Ok", val |-> SomeOpt(p)]

\* the events of the stream: a discovery of each identity, and one event of
\* another kind (the loop does not look at the identity of those)
DiscoveryEvents == [kind : {"DeviceDiscovered"}, id : Ids]
OtherEvents == {[kind |-> "DeviceUpdated", id |-> "a"]}
Events == DiscoveryEvents \cup OtherEvents

AddressOf(id) == "addr-" \o id

\* PeripheralProperties::default()
PeripheralPropertiesDefault ==
    [local_name |-> NoneOpt, tx_power_level |-> NoneOpt,
     address |-> "00:00:00:00:00:00", rssi |-> NoneOpt,
     manufacturer_data |-> {}, services |-> {}, service_data |-> {}]

\* the property set the adapter holds for an advertising device
AdvertisedProperties(id) ==
    [local_name |-> SomeOpt("name-" \o id), tx_power_level |-> SomeOpt(4),
     address |-> AddressOf(id), rssi |-> SomeOpt(-60),
     manufacturer_data |-> {<<76, "mfr">>}, services |-> {"svc"},
     service_data |-> {<<"svc", "data">>}]

\* the outcomes of device.properties().await
PropertiesResults(id) == {PropsErr, PropsNone, PropsSome(AdvertisedProperties(id))}

\* DeviceInfo::new(id, name, tx_power, address, rssi, manufacturer_data,
\*                 services, service_data, device)
DeviceInfoNew(id, local_name, tx_power_level, address, rssi, manufacturer_data, services, service_data, handle) ==
    [id |-> id, local_name |-> local_name, tx_power_level |-> tx_power_level,
     address |-> address, rssi |-> rssi,
     manufacturer_data |-> manufacturer_data, services |-> services,
     service_data |-> service_data, handle |-> handle]

\* ------------------------------------------------- bluetooth_scan: helpers
\* mutant: the pause flag is never consulted
PauseLoadIgnored == FALSE

\* pause_signal.load(Ordering::SeqCst)
PauseLoad == pause_signal

\* mutant: every event with an identity is handled as a discovery
IsAnyDeviceEvent(e) == e.kind # "NoEvent"

\* if let CentralEvent::DeviceDiscovered(id) = event
IsDeviceDiscovered(e) == e.kind = "DeviceDiscovered"

\* .unwrap_or(PeripheralProperties::default())
UnwrapOrDefault(opt) == IF opt = NoneOpt THEN PeripheralPropertiesDefault ELSE opt[1]

\* the DeviceInfo built from the peripheral and its properties
MakeDeviceInfo(dev, p) ==
    DeviceInfoNew(dev, p.local_name, p.tx_power_level, p.address, p.rssi,
                  p.manufacturer_data, p.services, p.service_data, dev)

\* mutant: the new record is inserted at the front
PushFront(list, info) == <<info>> \o list

\* devices_info.push(..)
Push(list, info) == Append(list, info)

\* devices_info.clone()
Snapshot(list) == list

\* every snapshot a send has put on the channel, in send order
published == received \o chan

\* events taken from the stream so far
consumed == Len(delivered) - Len(stream)

Return(r) ==
    /\ pc' = "done"
    /\ result' = r

Subscribed == pc \in {"next", "pause", "peripheral", "properties", "send"}

\* --------------------------------------------------- bluetooth_scan: setup
\* Manager::new().await?
ManagerNew ==
    /\ pc = "manager"
    /\ \E ok \in BOOLEAN :
         IF ok THEN pc' = "adapters" /\ result' = result
               ELSE Return("ManagerError")
    /\ UNCHANGED <<scanStarts, event, device, properties, devices_info, envVars,
                   gcVars>>

\* manager.adapters().await? ; adapters.into_iter().next().ok_or(..)?
Adapters ==
    /\ pc = "adapters"
    /\ \E r \in {"Err", "Empty", "Some"} :
         CASE r = "Err" -> Return("AdaptersError")
           [] r = "Empty" -> Return("NoAdaptersFound")
           [] OTHER -> pc' = "start_scan" /\ result' = result
    /\ UNCHANGED <<scanStarts, event, device, properties, devices_info, envVars,
                   gcVars>>

\* mutant: a failed scan start is tried again
StartScanRetrying ==
    /\ pc = "start_scan"
    /\ scanStarts' = scanStarts + 1
    /\ \E ok \in BOOLEAN :
         IF ok THEN pc' = "events" /\ result' = result
               ELSE pc' = "start_scan" /\ result' = result
    /\ UNCHANGED <<event, device, properties, devices_info, envVars,
                   gcVars>>

\* central.start_scan(ScanFilter::default()).await?
StartScan ==
    /\ pc = "start_scan"
    /\ scanStarts' = scanStarts + 1
    /\ \E ok \in BOOLEAN :
         IF ok THEN pc' = "events" /\ result' = result
               ELSE Return("ScanStartError")
    /\ UNCHANGED <<event, device, properties, devices_info, envVars,
                   gcVars>>

\* central.events().await? ; let mut devices_info = Vec::new()
EventsSubscribe ==
    /\ pc = "events"
    /\ \E ok \in BOOLEAN :
         IF ok THEN pc' = "next" /\ result' = result
               ELSE Return("EventsError")
    /\ devices_info' = <<>>
    /\ UNCHANGED <<scanStarts, event, device, properties, envVars,
                   gcVars>>

\* ---------------------------------------------------- bluetooth_scan: loop
\* mutant: the end of the stream does not end the loop
NextEventNeverEnds ==
    /\ pc = "next"
    /\ stream # <<>>
    /\ event' = Head(stream)
    /\ stream' = Tail(stream)
    /\ pausedSinceTake' = pause_signal
    /\ pc' = "pause"
    /\ result' = result
    /\ UNCHANGED <<scanStarts, device, properties, devices_info, pause_signal,
                   pauses, srcDone, delivered, chan, received, rxClosed,
                   lookupFailed, pausedDelivery,
                   gcVars, resolved>>

\* mutant: a closed receiver is looked for before the next event is awaited
NextEventCheckingClosed ==
    /\ pc = "next"
    /\ IF rxClosed
       THEN /\ Return("SendError")
            /\ UNCHANGED <<event, stream, pausedSinceTake>>
       ELSE IF stream # <<>>
       THEN /\ event' = Head(stream)
            /\ stream' = Tail(stream)
            /\ pausedSinceTake' = pause_signal
            /\ pc' = "pause"
            /\ result' = result
       ELSE /\ srcDone
            /\ Return("Ok")
            /\ UNCHANGED <<event, stream, pausedSinceTake>>
    /\ UNCHANGED <<scanStarts, device, properties, devices_info, pause_signal,
                   pauses, srcDone, delivered, chan, received, rxClosed,
                   lookupFailed, pausedDelivery,
                   gcVars, resolved>>

\* mutant: the newest queued event is taken first
NextEventNewest ==
    /\ pc = "next"
    /\ IF stream # <<>>
       THEN /\ event' = stream[Len(stream)]
            /\ stream' = SubSeq(stream, 1, Len(stream) - 1)
            /\ pausedSinceTake' = pause_signal
            /\ pc' = "pause"
            /\ result' = result
       ELSE /\ srcDone
            /\ Return("Ok")
            /\ UNCHANGED <<event, stream, pausedSinceTake>>
    /\ UNCHANGED <<scanStarts, device, properties, devices_info, pause_signal,
                   pauses, srcDone, delivered, chan, received, rxClosed,
                   lookupFailed, pausedDelivery,
                   gcVars, resolved>>

\* while let Some(event) = events.next().await
NextEvent ==
    /\ pc = "next"
    /\ IF stream # <<>>
       THEN /\ event' = Head(stream)
            /\ stream' = Tail(stream)
            /\ pausedSinceTake' = pause_signal
            /\ pc' = "pause"
            /\ result' = result
       ELSE /\ srcDone
            /\ Return("Ok")
            /\ UNCHANGED <<event, stream, pausedSinceTake>>
    /\ UNCHANGED <<scanStarts, device, properties, devices_info, pause_signal,
                   pauses, srcDone, delivered, chan, received, rxClosed,
                   lookupFailed, pausedDelivery,
                   gcVars, resolved>>

\* mutant: a set flag ends the loop
AwaitPauseReturning ==
    /\ pc = "pause"
    /\ IF PauseLoad
       THEN Return("Ok") /\ event' = event
       ELSE /\ result' = result
            /\ IF IsDeviceDiscovered(event)
               THEN pc' = "peripheral" /\ event' = event
               ELSE pc' = "next" /\ event' = NoEvent
    /\ UNCHANGED <<scanStarts, device, properties, devices_info, envVars,
                   gcVars>>

\* mutant: an event that finds the flag set is skipped instead of waited for
AwaitPauseSkipping ==
    /\ pc = "pause"
    /\ IF ~PauseLoad /\ IsDeviceDiscovered(event)
       THEN pc' = "peripheral" /\ event' = event
       ELSE pc' = "next" /\ event' = NoEvent
    /\ UNCHANGED <<result, scanStarts, device, properties, devices_info, envVars,
                   gcVars>>

\* while pause_signal.load(..) { sleep(100ms).await } ; if let DeviceDiscovered
AwaitPause ==
    /\ pc = "pause"
    /\ ~PauseLoad
    /\ IF IsDeviceDiscovered(event)
       THEN pc' = "peripheral" /\ event' = event
       ELSE pc' = "next" /\ event' = NoEvent
    /\ UNCHANGED <<result, scanStarts, device, properties, devices_info, envVars,
                   gcVars>>

\* mutant: a failed peripheral lookup is returned as an error
PeripheralErrFatal ==
    /\ pc = "peripheral"
    /\ \E ok \in BOOLEAN :
         IF ok
         THEN /\ device' = event.id
              /\ pc' = "properties"
              /\ resolved' = Append(resolved, consumed)
              /\ UNCHANGED <<event, lookupFailed, result>>
         ELSE /\ Return("PeripheralError")
              /\ lookupFailed' = TRUE
              /\ UNCHANGED <<event, device, resolved>>
    /\ UNCHANGED <<scanStarts, properties, devices_info, pause_signal,
                   pauses, stream, srcDone, delivered, chan, received, rxClosed,
                   pausedSinceTake, pausedDelivery,
                   gcVars>>

\* if let Ok(device) = central.peripheral(&id).await
Peripheral ==
    /\ pc = "peripheral"
    /\ \E ok \in BOOLEAN :
         IF ok
         THEN /\ device' = event.id
              /\ pc' = "properties"
              /\ resolved' = Append(resolved, consumed)
              /\ UNCHANGED <<event, lookupFailed>>
         ELSE /\ pc' = "next"
              /\ event' = NoEvent
              /\ lookupFailed' = TRUE
              /\ UNCHANGED <<device, resolved>>
    /\ UNCHANGED <<result, scanStarts, properties, devices_info, pause_signal,
                   pauses, stream, srcDone, delivered, chan, received, rxClosed,
                   pausedSinceTake, pausedDelivery,
                   gcVars>>

\* mutant: a lookup that returns no properties aborts the run
PropertiesNoneFatal ==
    /\ pc = "properties"
    /\ \E r \in PropertiesResults(device) :
         /\ properties' = r
         /\ IF r = PropsErr \/ r = PropsNone
            THEN /\ Return("PropertiesError")
                 /\ lookupFailed' = TRUE
                 /\ devices_info' = devices_info
            ELSE /\ devices_info' =
                      Push(devices_info, MakeDeviceInfo(device, UnwrapOrDefault(r.val)))
                 /\ pc' = "send"
                 /\ UNCHANGED <<result, lookupFailed>>
    /\ UNCHANGED <<scanStarts, event, device, pause_signal, pauses, stream,
                   srcDone, delivered, chan, received, rxClosed, pausedSinceTake,
                   pausedDelivery,
                   gcVars, resolved>>

\* mutant: a lookup error is replaced by the default properties
PropertiesErrDefaulted ==
    /\ pc = "properties"
    /\ \E r \in PropertiesResults(device) :
         /\ properties' = r
         /\ devices_info' =
              Push(devices_info,
                   MakeDeviceInfo(device,
                       UnwrapOrDefault(IF r = PropsErr THEN NoneOpt ELSE r.val)))
         /\ pc' = "send"
         /\ UNCHANGED <<result, lookupFailed>>
    /\ UNCHANGED <<scanStarts, event, device, pause_signal, pauses, stream,
                   srcDone, delivered, chan, received, rxClosed, pausedSinceTake,
                   pausedDelivery,
                   gcVars, resolved>>

\* device.properties().await?.unwrap_or(..) ; devices_info.push(DeviceInfo::new(..))
Properties ==
    /\ pc = "properties"
    /\ \E r \in PropertiesResults(device) :
         /\ properties' = r
         /\ IF r = PropsErr
            THEN /\ Return("PropertiesError")
                 /\ lookupFailed' = TRUE
                 /\ devices_info' = devices_info
            ELSE /\ devices_info' =
                      Push(devices_info, MakeDeviceInfo(device, UnwrapOrDefault(r.val)))
                 /\ pc' = "send"
                 /\ UNCHANGED <<result, lookupFailed>>
    /\ UNCHANGED <<scanStarts, event, device, pause_signal, pauses, stream,
                   srcDone, delivered, chan, received, rxClosed, pausedSinceTake, pausedDelivery,
                   gcVars, resolved>>

\* mutant: a snapshot that finds the channel full is dropped
SendSkippingWhenFull ==
    /\ pc = "send"
    /\ IF rxClosed
       THEN /\ Return("SendError")
            /\ UNCHANGED <<chan, event, device, properties>>
       ELSE /\ chan' = IF Len(chan) < ChanCap
                       THEN Append(chan, Snapshot(devices_info))
                       ELSE chan
            /\ pc' = "next"
            /\ result' = result
            /\ event' = NoEvent
            /\ device' = NoDevice
            /\ properties' = Unset
    /\ UNCHANGED <<scanStarts, devices_info, pause_signal, pauses, stream,
                   srcDone, delivered, received, rxClosed, pausedSinceTake,
                   lookupFailed, pausedDelivery,
                   gcVars, resolved>>

\* mutant: a full channel has its buffered snapshot replaced by the new one
SendOverwriting ==
    /\ pc = "send"
    /\ IF rxClosed
       THEN /\ Return("SendError")
            /\ UNCHANGED <<chan, event, device, properties>>
       ELSE /\ chan' = IF Len(chan) < ChanCap
                       THEN Append(chan, Snapshot(devices_info))
                       ELSE Append(SubSeq(chan, 1, Len(chan) - 1),
                                   Snapshot(devices_info))
            /\ pc' = "next"
            /\ result' = result
            /\ event' = NoEvent
            /\ device' = NoDevice
            /\ properties' = Unset
    /\ UNCHANGED <<scanStarts, devices_info, pause_signal, pauses, stream,
                   srcDone, delivered, received, rxClosed, pausedSinceTake,
                   lookupFailed, pausedDelivery,
                   gcVars, resolved>>

\* mutant: the result of the send is dropped and the loop goes on
SendIgnoringError ==
    /\ pc = "send"
    /\ IF rxClosed
       THEN /\ pc' = "next"
            /\ UNCHANGED <<chan, result>>
       ELSE /\ Len(chan) < ChanCap
            /\ chan' = Append(chan, Snapshot(devices_info))
            /\ pc' = "next"
            /\ result' = result
    /\ event' = NoEvent
    /\ device' = NoDevice
    /\ properties' = Unset
    /\ UNCHANGED <<scanStarts, devices_info, pause_signal, pauses, stream,
                   srcDone, delivered, received, rxClosed, pausedSinceTake,
                   lookupFailed, pausedDelivery,
                   gcVars, resolved>>

\* tx.send(devices_info.clone()).await?
Send ==
    /\ pc = "send"
    /\ IF rxClosed
       THEN /\ Return("SendError")
            /\ UNCHANGED <<chan, event, device, properties>>
       ELSE /\ Len(chan) < ChanCap
            /\ chan' = Append(chan, Snapshot(devices_info))
            /\ pc' = "next"
            /\ result' = result
            /\ event' = NoEvent
            /\ device' = NoDevice
            /\ properties' = Unset
    /\ UNCHANGED <<scanStarts, devices_info, pause_signal, pauses, stream,
                   srcDone, delivered, received, rxClosed, pausedSinceTake,
                   lookupFailed, pausedDelivery,
                   gcVars, resolved>>

ScanStep ==
    \/ ManagerNew
    \/ Adapters
    \/ StartScan
    \/ EventsSubscribe
    \/ NextEvent
    \/ AwaitPause
    \/ Peripheral
    \/ Properties
    \/ Send

\* ------------------------------------------------------------- environment
\* the adapter delivers an event on the stream
Deliver ==
    /\ Subscribed
    /\ ~srcDone
    /\ Len(delivered) < MaxEvents
    /\ \E e \in Events :
         /\ stream' = Append(stream, e)
         /\ delivered' = Append(delivered, e)
         /\ pausedDelivery' = IF pause_signal THEN Len(delivered) + 1 ELSE pausedDelivery
    /\ UNCHANGED <<scanVars, pause_signal, pauses, srcDone, chan, received,
                   rxClosed, pausedSinceTake, lookupFailed,
                   gcVars, resolved>>

\* the scan session ends: the stream yields None once drained
SourceEnd ==
    /\ Subscribed
    /\ ~srcDone
    /\ srcDone' = TRUE
    /\ UNCHANGED <<scanVars, pause_signal, pauses, stream, delivered, chan,
                   received, rxClosed, pausedSinceTake, lookupFailed, pausedDelivery,
                   gcVars, resolved>>

\* the controller stores true in the pause flag
SetPause ==
    /\ pc # "done"
    /\ ~pause_signal
    /\ pauses < MaxPauses
    /\ pause_signal' = TRUE
    /\ pauses' = pauses + 1
    /\ UNCHANGED <<scanVars, stream, srcDone, delivered, chan, received,
                   rxClosed, pausedSinceTake, lookupFailed, pausedDelivery,
                   gcVars, resolved>>

\* the controller stores false in the pause flag
ClearPause ==
    /\ pause_signal
    /\ pause_signal' = FALSE
    /\ pausedSinceTake' = FALSE
    /\ UNCHANGED <<scanVars, pauses, stream, srcDone, delivered, chan,
                   received, rxClosed, lookupFailed, pausedDelivery,
                   gcVars, resolved>>

\* the receiver takes the oldest buffered snapshot
Recv ==
    /\ ~rxClosed
    /\ chan # <<>>
    /\ received' = Append(received, Head(chan))
    /\ chan' = Tail(chan)
    /\ UNCHANGED <<scanVars, pause_signal, pauses, stream, srcDone, delivered,
                   rxClosed, pausedSinceTake, lookupFailed, pausedDelivery,
                   gcVars, resolved>>

\* the receiver is closed or dropped
CloseRx ==
    /\ pc # "done"
    /\ ~rxClosed
    /\ rxClosed' = TRUE
    /\ UNCHANGED <<scanVars, pause_signal, pauses, stream, srcDone, delivered,
                   chan, received, pausedSinceTake, lookupFailed, pausedDelivery,
                   gcVars, resolved>>

InitScan ==
    /\ pc = "manager"
    /\ result = "running"
    /\ scanStarts = 0
    /\ event = NoEvent
    /\ device = NoDevice
    /\ properties = Unset
    /\ devices_info = <<>>
    /\ pause_signal \in BOOLEAN
    /\ pauses = 0
    /\ stream = <<>>
    /\ srcDone = FALSE
    /\ delivered = <<>>
    /\ chan = <<>>
    /\ received = <<>>
    /\ rxClosed = FALSE
    /\ pausedSinceTake = FALSE
    /\ lookupFailed = FALSE
    /\ pausedDelivery = 0
    /\ resolved = <<>>

\* get_characteristics has not been called
InitNoCall ==
    /\ gc_pc = "idle"
    /\ peripheral = {}
    /\ connectState = "none"
    /\ elapsed = 0
    /\ charReads = 0
    /\ gc_iter = <<>>
    /\ gc_vec = <<>>
    /\ gc_result = NoResult

Init == InitScan /\ InitNoCall

Next ==
    \/ ManagerNew
    \/ Adapters
    \/ StartScan
    \/ EventsSubscribe
    \/ NextEvent
    \/ AwaitPause
    \/ Peripheral
    \/ Properties
    \/ Send
    \/ Deliver
    \/ SourceEnd
    \/ SetPause
    \/ ClearPause
    \/ Recv
    \/ CloseRx

Spec == Init /\ [][Next]_vars

\* The task is polled whenever it can make progress, the receiver drains the
\* channel while it is open, and the controller clears a set flag; the flag
\* is set at most MaxPauses times, so it is eventually clear for good.
LiveSpec ==
    /\ Spec
    /\ WF_vars(ScanStep)
    /\ WF_vars(Recv)
    /\ WF_vars(ClearPause)

\* ====================================================== get_characteristics
ServiceUuids == {1, 2}
CharacteristicUuids == {1, 2}
DescriptorUuids == 1..MaxDescriptors

\* the property bitset of characteristic c of service s
CharPropFlags(s, c) == 2 * s + c

\* btleplug Descriptor and Characteristic values of characteristic c of service s
DescriptorOf(s, c, d) == [uuid |-> d, service_uuid |-> s, characteristic_uuid |-> c]
CharacteristicOf(s, c, D) ==
    [uuid |-> c, service_uuid |-> s, properties |-> CharPropFlags(s, c),
     descriptors |-> {DescriptorOf(s, c, d) : d \in D}]

\* the characteristic sets a service can hold: any characteristics with
\* distinct uuids, each with any set of descriptors
ServiceCharacteristics(s) ==
    {X \in SUBSET {CharacteristicOf(s, c, D) :
                      c \in CharacteristicUuids, D \in SUBSET DescriptorUuids} :
        \A x, y \in X : x.uuid = y.uuid => x = y}

\* the peripherals: any set of services with distinct uuids
Peripherals ==
    UNION {{ {[uuid |-> s, characteristics |-> f[s]] : s \in S} :
                f \in {g \in [S -> UNION {ServiceCharacteristics(s) : s \in S}] :
                          \A s \in S : g[s] \in ServiceCharacteristics(s)} } :
           S \in SUBSET ServiceUuids}

\* mutant: the deadline is one second longer
DurationTooLong == 10 + 1

\* Duration::from_secs(10)
duration == 10

\* the derived Ord of Characteristic: by uuid, then by service_uuid
CharacteristicLess(a, b) ==
    \/ a.uuid < b.uuid
    \/ a.uuid = b.uuid /\ a.service_uuid < b.service_uuid

\* iteration order of a BTreeSet<Characteristic>
RECURSIVE CharacteristicsInOrder(_)
CharacteristicsInOrder(S) ==
    IF S = {} THEN <<>>
    ELSE LET m == CHOOSE x \in S : \A y \in S \ {x} : CharacteristicLess(x, y)
         IN <<m>> \o CharacteristicsInOrder(S \ {m})

\* iteration order of a BTreeSet<Descriptor>: by uuid
RECURSIVE DescriptorsInOrder(_)
DescriptorsInOrder(S) ==
    IF S = {} THEN <<>>
    ELSE LET m == CHOOSE x \in S : \A y \in S \ {x} : x.uuid < y.uuid
         IN <<m>> \o DescriptorsInOrder(S \ {m})

\* peripheral.characteristics(): the characteristics of all services
PeripheralCharacteristics(p) == UNION {s.characteristics : s \in p}

\* characteristic.descriptors.into_iter().map(|d| d.uuid).collect()
DescriptorUuidList(ds) ==
    LET q == DescriptorsInOrder(ds) IN [i \in 1..Len(q) |-> q[i].uuid]

\* mutant: the record takes the characteristic's own uuid as its service
MakeCharacteristicOwnUuid(c) ==
    [uuid |-> c.uuid, properties |-> c.properties,
     descriptors |-> DescriptorUuidList(c.descriptors),
     service |-> c.uuid]

\* Characteristic { uuid, properties, descriptors, service }
MakeCharacteristic(c) ==
    [uuid |-> c.uuid, properties |-> c.properties,
     descriptors |-> DescriptorUuidList(c.descriptors),
     service |-> c.service_uuid]

GcReturn(r) ==
    /\ gc_pc' = "done"
    /\ gc_result' = r

\* the timer of the timeout has fired and the connect is still pending
TimeoutDue == connectState = "pending" /\ elapsed >= duration

\* one second passes while the call waits for the connect; the timer wakes
\* the task at the deadline, before the clock moves on
Tick ==
    /\ gc_pc = "connect"
    /\ connectState = "pending"
    /\ ~TimeoutDue
    /\ elapsed < MaxElapsed
    /\ elapsed' = elapsed + 1
    /\ UNCHANGED <<gc_pc, peripheral, connectState, charReads, gc_iter, gc_vec,
                   gc_result, scanVars, envVars>>

\* peripheral.connect() completes before the deadline, with success or an error
ConnectCompletes ==
    /\ gc_pc = "connect"
    /\ connectState = "pending"
    /\ elapsed < duration
    /\ \E r \in {"Ok", "Err"} : connectState' = r
    /\ UNCHANGED <<gc_pc, peripheral, elapsed, charReads, gc_iter, gc_vec,
                   gc_result, scanVars, envVars>>

\* mutant: the result of the connect is not looked at
ConnectReadyIgnoringError ==
    /\ gc_pc = "connect"
    /\ connectState \in {"Ok", "Err"}
    /\ gc_pc' = "read"
    /\ gc_result' = gc_result
    /\ UNCHANGED <<peripheral, connectState, elapsed, charReads, gc_iter,
                   gc_vec, scanVars, envVars>>

\* timeout(duration, peripheral.connect()).await?? : the connect has completed
ConnectReady ==
    /\ gc_pc = "connect"
    /\ connectState \in {"Ok", "Err"}
    /\ IF connectState = "Ok"
       THEN gc_pc' = "read" /\ gc_result' = gc_result
       ELSE GcReturn(ErrConnect)
    /\ UNCHANGED <<peripheral, connectState, elapsed, charReads, gc_iter,
                   gc_vec, scanVars, envVars>>

\* timeout(duration, peripheral.connect()).await?? : the deadline has elapsed
ConnectTimedOut ==
    /\ gc_pc = "connect"
    /\ TimeoutDue
    /\ connectState' = "cancelled"
    /\ GcReturn(ErrElapsed)
    /\ UNCHANGED <<peripheral, elapsed, charReads, gc_iter, gc_vec, scanVars,
                   envVars>>

\* let characteristics = peripheral.characteristics(); let mut result = Vec::new()
ReadCharacteristics ==
    /\ gc_pc = "read"
    /\ gc_iter' = CharacteristicsInOrder(PeripheralCharacteristics(peripheral))
    /\ charReads' = charReads + 1
    /\ gc_vec' = <<>>
    /\ gc_pc' = "loop"
    /\ UNCHANGED <<peripheral, connectState, elapsed, gc_result, scanVars,
                   envVars>>

\* for characteristic in characteristics { result.push(..) } ; Ok(result)
LoopStep ==
    /\ gc_pc = "loop"
    /\ IF gc_iter # <<>>
       THEN /\ gc_vec' = Append(gc_vec, MakeCharacteristic(Head(gc_iter)))
            /\ gc_iter' = Tail(gc_iter)
            /\ UNCHANGED <<gc_pc, gc_result>>
       ELSE /\ GcReturn(OkList(gc_vec))
            /\ UNCHANGED <<gc_iter, gc_vec>>
    /\ UNCHANGED <<peripheral, connectState, elapsed, charReads, scanVars,
                   envVars>>

\* get_characteristics is called on a peripheral; bluetooth_scan is not running
InitGC ==
    /\ InitScan
    /\ ~pause_signal
    /\ gc_pc = "connect"
    /\ peripheral \in Peripherals
    /\ connectState = "pending"
    /\ elapsed = 0
    /\ charReads = 0
    /\ gc_iter = <<>>
    /\ gc_vec = <<>>
    /\ gc_result = NoResult

NextGC ==
    \/ Tick
    \/ ConnectCompletes
    \/ ConnectReady
    \/ ConnectTimedOut
    \/ ReadCharacteristics
    \/ LoopStep

SpecGC == InitGC /\ [][NextGC]_vars

\* ================================================================ claims
IsPrefix(s, t) == Len(s) <= Len(t) /\ SubSeq(t, 1, Len(s)) = s

DistinctIds(list) ==
    \A i, j \in 1..Len(list) : i # j => list[i].id # list[j].id

\* C1: the k-th snapshot sent on the channel has exactly k elements and the
\* (k-1)-th snapshot is a prefix of it: one record appended at the end, nothing
\* removed or reordered.
C1_MonotonicAccumulation ==
    \A k \in 1..Len(published) :
        /\ Len(published[k]) = k
        /\ k > 1 => /\ IsPrefix(published[k - 1], published[k])
                    /\ published[k] = Append(published[k - 1], published[k][k])

\* two snapshots published for two events with distinct identities
C1_Witness ==
    /\ Len(published) >= 2
    /\ DistinctIds(published[2])

\* C2 as stated: in no state where the pause flag is true is a DeviceInfo
\* appended or a snapshot sent.
C2_NoProcessingWhileFlagSet ==
    [][pause_signal => (devices_info' = devices_info /\ published' = published)]_vars

\* C2 amended: an event taken while the pause flag is set is not processed for
\* as long as the flag stays set: no DeviceInfo is appended and no snapshot is
\* sent while the flag has been set ever since the event was taken.
C2_NotProcessedWhileHeldPaused ==
    [][pausedSinceTake =>
         (devices_info' = devices_info /\ published' = published)]_vars

\* a discovery event is in hand and held by the flag
C2_Witness ==
    /\ pc = "pause"
    /\ pausedSinceTake
    /\ IsDeviceDiscovered(event)

\* the position among the discovery events of the i-th delivered event
DiscoveryIndex(i) ==
    Cardinality({j \in 1..i : IsDeviceDiscovered(delivered[j])})

\* the i-th delivered event has its record, at its place in delivery order,
\* in a published snapshot
Reflected(i) ==
    /\ i \in 1..Len(delivered)
    /\ \E k \in 1..Len(published) :
        /\ DiscoveryIndex(i) \in 1..Len(published[k])
        /\ published[k][DiscoveryIndex(i)].id = delivered[i].id

\* C3: a discovery event delivered while the pause flag is set is not lost:
\* unless a lookup fails or the receiver is closed, its record eventually
\* appears in a published snapshot, at its place in delivery order.
C3_NoEventLostByPause ==
    \A i \in 1..MaxEvents :
        (pausedDelivery = i /\ IsDeviceDiscovered(delivered[i]))
            ~> (Reflected(i) \/ lookupFailed \/ rxClosed)

\* an event delivered during a pause has been published after the flag cleared
C3_Witness ==
    /\ pausedDelivery > 0
    /\ Reflected(pausedDelivery)
    /\ ~lookupFailed
    /\ ~rxClosed
    /\ ~pause_signal

DefaultDeviceInfo(id) ==
    [id |-> id, local_name |-> <<>>, tx_power_level |-> <<>>,
     address |-> "00:00:00:00:00:00", rssi |-> <<>>, manufacturer_data |-> {},
     services |-> {}, service_data |-> {}, handle |-> id]

\* C5: when the property lookup returns no properties the run does not abort:
\* the record with the device's id and handle and empty/default fields is
\* appended, the next send publishes the list that ends with it, and the loop
\* goes on to the next event.
C5_DefaultPropertySubstitution ==
    /\ [][(pc = "properties" /\ properties' = PropsNone) =>
            (/\ pc' = "send"
             /\ result' = "running"
             /\ devices_info' = Append(devices_info, DefaultDeviceInfo(device)))]_vars
    /\ [][(pc = "send" /\ pc' = "next") =>
            (/\ published' = Append(published, devices_info)
             /\ result' = "running")]_vars

\* a default record was published and a later event was published after it
C5_Witness ==
    /\ Len(published) >= 2
    /\ published[1][1] = DefaultDeviceInfo(published[1][1].id)
    /\ result = "running"

\* C6: when the property lookup returns an error the run returns that error:
\* the device is not appended, nothing is published for it, no further event
\* is consumed and what was published before stays as it was.
C6_FatalPropertyLookupError ==
    /\ [][(pc = "properties" /\ properties' = PropsErr) =>
            (/\ pc' = "done"
             /\ result' = "PropertiesError"
             /\ devices_info' = devices_info
             /\ published' = published
             /\ consumed' = consumed)]_vars
    /\ [][result = "PropertiesError" =>
            (/\ pc = "done"
             /\ scanVars' = scanVars
             /\ consumed' = consumed
             /\ published' = published)]_vars

\* the run failed on a lookup after it had published a snapshot
C6_Witness ==
    /\ result = "PropertiesError"
    /\ Len(published) >= 1

\* C10: no two records of the accumulated sequence, nor of any published
\* snapshot, have the same id.
C10_IdentityUniqueness ==
    /\ DistinctIds(devices_info)
    /\ \A k \in 1..Len(published) : DistinctIds(published[k])

\* a peripheral that exposes at least one characteristic
ExposesCharacteristics == PeripheralCharacteristics(peripheral) # {}

\* C7: a connect still pending when the 10 second deadline elapses yields the
\* timeout error: the call does not wait past 10 seconds, the characteristic
\* list is never read and no Characteristic record is returned.
C7_EnumerationTimeout ==
    /\ [][(gc_pc = "connect" /\ connectState = "pending" /\ elapsed >= 10
             /\ gcVars' # gcVars) =>
            (gc_pc' = "done" /\ gc_result' = ErrElapsed /\ elapsed' = elapsed)]_vars
    /\ [](gc_pc = "connect" => elapsed <= 10)
    /\ [](gc_result = ErrElapsed =>
            (gc_pc = "done" /\ charReads = 0 /\ gc_vec = <<>> /\ gc_iter = <<>>))
    /\ [][gc_result = ErrElapsed => gcVars' = gcVars]_vars

\* the call timed out on a peripheral that has characteristics
C7_Witness ==
    /\ gc_result = ErrElapsed
    /\ elapsed = 10
    /\ ExposesCharacteristics

\* C8: the call returns the full flattened list or an error, never a partial
\* list: a connect that fails before the deadline yields the connect error,
\* which is not the timeout error, and the characteristic list is read only
\* after the connect returned success within the deadline.
C8_NoPartialResults ==
    /\ [](gc_pc = "done" =>
            \/ /\ gc_result \in {ErrElapsed, ErrConnect}
               /\ charReads = 0
               /\ gc_vec = <<>>
            \/ /\ gc_result = OkList(gc_vec)
               /\ Len(gc_vec) = Cardinality(PeripheralCharacteristics(peripheral))
               /\ gc_iter = <<>>)
    /\ [](gc_pc # "done" => gc_result = NoResult)
    /\ [][(gc_pc = "connect" /\ connectState = "Err" /\ gcVars' # gcVars) =>
            (gc_pc' = "done" /\ gc_result' = ErrConnect /\ gc_result' # ErrElapsed)]_vars
    /\ [](gc_result = ErrConnect => (connectState = "Err" /\ elapsed < 10))
    /\ [](charReads > 0 => (connectState = "Ok" /\ elapsed < 10 /\ charReads = 1))

\* the connect failed before the deadline on a peripheral with characteristics
C8_Witness ==
    /\ gc_result = ErrConnect
    /\ elapsed > 0
    /\ ExposesCharacteristics

\* the records of `list` made from characteristic c of service s
RecordsOf(list, s, c) ==
    {i \in 1..Len(list) : list[i].uuid = c.uuid /\ list[i].service = s.uuid}

\* C9: after a successful connect the call returns exactly one record per
\* characteristic of every service (none for a service without
\* characteristics), with the characteristic's uuid, property bitset and
\* service uuid, and the uuids of its descriptors, as many as it has and in
\* the order of the descriptor set; a peripheral without characteristics
\* yields the empty list.
C9_EnumerationFlattening ==
    gc_result.tag = "Ok" =>
        LET list == gc_result.val IN
        /\ Len(list) = Cardinality(UNION {s.characteristics : s \in peripheral})
        /\ \A s \in peripheral : \A c \in s.characteristics :
             /\ Cardinality(RecordsOf(list, s, c)) = 1
             /\ \A i \in RecordsOf(list, s, c) :
                  /\ list[i].properties = c.properties
                  /\ Len(list[i].descriptors) = Cardinality(c.descriptors)
                  /\ {list[i].descriptors[n] : n \in 1..Len(list[i].descriptors)}
                       = {d.uuid : d \in c.descriptors}
                  /\ \A m, n \in 1..Len(list[i].descriptors) :
                       m < n => list[i].descriptors[m] < list[i].descriptors[n]
        /\ (\A s \in peripheral : s.characteristics = {}) => list = <<>>

\* two services, one with one characteristic that has two descriptors and one
\* without characteristics: one record with two descriptors is returned
C9_Witness ==
    /\ gc_result.tag = "Ok"
    /\ Cardinality(peripheral) = 2
    /\ \E s \in peripheral : s.characteristics = {}
    /\ Len(gc_result.val) = 1
    /\ Len(gc_result.val[1].descriptors) = 2
    /\ \E s \in peripheral : s.characteristics # {} /\ gc_result.val[1].service = s.uuid

\* the positions of the event loop
LoopPcs == {"next", "pause", "peripheral", "properties", "send"}

\* C11 as stated: once in the event loop the run returns only through
\* exhaustion of the event source or closure of the output channel.
C11_OnlyExhaustionOrClosure ==
    [][(pc \in LoopPcs /\ pc' = "done") => result' \in {"Ok", "SendError"}]_vars

\* C11 amended: once in the event loop the run returns only through
\* exhaustion of the event source, closure of the output channel noticed at a
\* send, or an error of the property lookup; no other event and no value of
\* the pause flag makes it return.
C11_TerminationCauses ==
    [][(pc \in LoopPcs /\ pc' = "done") =>
         \/ pc = "next" /\ srcDone /\ stream = <<>> /\ result' = "Ok"
         \/ pc = "send" /\ rxClosed /\ result' = "SendError"
         \/ pc = "properties" /\ properties' = PropsErr
              /\ result' = "PropertiesError"]_vars

\* the run went through the loop, was paused, and returned on exhaustion
C11_Witness ==
    /\ result = "Ok"
    /\ consumed >= 1
    /\ pauses >= 1

\* C12: the next event is taken only when the event before it has been
\* handled to the end (waited for, appended and sent); while the loop waits
\* on a set pause flag or on a full channel no event is taken; events are
\* taken one at a time, in the order the source delivered them.
C12_OneEventInFlight ==
    /\ [][consumed' # consumed =>
            (/\ consumed' = consumed + 1
             /\ pc = "next"
             /\ event = NoEvent
             /\ Len(published) = Len(devices_info)
             /\ event' = delivered[consumed'])]_vars
    /\ [][((pc = "pause" /\ pause_signal)
             \/ (pc = "send" /\ ~rxClosed /\ Len(chan) >= ChanCap)) =>
            (consumed' = consumed /\ pc' = pc /\ event' = event)]_vars
    /\ [](event # NoEvent => (consumed >= 1 /\ event = delivered[consumed]))

\* an event is held by the pause flag while another one is queued behind it
C12_Witness ==
    /\ pc = "pause"
    /\ pause_signal
    /\ stream # <<>>

\* C13: without a DeviceDiscovered event in hand nothing is appended and
\* nothing is sent, and no step ever changes or removes a record that is
\* already in the accumulated sequence.
C13_NonDiscoveryNoEffect ==
    /\ [][event.kind # "DeviceDiscovered" =>
            (devices_info' = devices_info /\ published' = published)]_vars
    /\ [][event.kind = "DeviceUpdated" =>
            (event' = event \/ (event' = NoEvent /\ pc' = "next"))]_vars
    /\ [][IsPrefix(devices_info, devices_info')]_vars

\* a record was appended, then an event of another kind was handled
C13_Witness ==
    /\ Len(delivered) = 2
    /\ delivered[2].kind = "DeviceUpdated"
    /\ consumed = 2
    /\ pc = "next"
    /\ Len(devices_info) = 1

\* the results of a run that ended before the event loop
SetupErrors ==
    {"ManagerError", "AdaptersError", "NoAdaptersFound", "ScanStartError",
     "EventsError"}

\* C14: a snapshot that has been sent keeps its content: a later append, a
\* later send and the return of the run (with success or an error) leave
\* every snapshot sent so far as it was, in the channel and at the receiver.
C14_SnapshotIndependence ==
    /\ [][IsPrefix(published, published')]_vars
    /\ [][IsPrefix(received, received')]_vars
    /\ [][devices_info' # devices_info => published' = published]_vars
    /\ [][pc' = "done" => published' = published]_vars

\* a snapshot is at the receiver, the list has grown since, and the run ended
C14_Witness ==
    /\ Len(received) >= 1
    /\ Len(received[1]) = 1
    /\ Len(devices_info) = 2
    /\ pc = "done"

\* C15: the hardware scan is started at most once, after an adapter was
\* acquired, and exactly once before any event is consumed; a run that ends
\* because no adapter exists or the scan start failed has consumed no event
\* and published nothing.
C15_SetupOrdering ==
    /\ scanStarts <= 1
    /\ pc \in {"manager", "adapters", "start_scan"} => scanStarts = 0
    /\ result \in {"ManagerError", "AdaptersError", "NoAdaptersFound"} =>
           scanStarts = 0
    /\ (pc \in LoopPcs \/ pc = "events") => scanStarts = 1
    /\ (consumed > 0 \/ delivered # <<>>) => scanStarts = 1
    /\ result \in SetupErrors =>
           /\ pc = "done"
           /\ consumed = 0
           /\ delivered = <<>>
           /\ published = <<>>
           /\ devices_info = <<>>
    /\ result = "ScanStartError" => scanStarts = 1

\* the scan start failed and the run returned that error
C15_Witness ==
    /\ result = "ScanStartError"
    /\ pc = "done"

\* the identities of the delivered events whose peripheral lookup returned Ok
ResolvedIds == [n \in 1..Len(resolved) |-> delivered[resolved[n]].id]

\* the identities of the records of a list, in order
RecordIds(list) == [n \in 1..Len(list) |-> list[n].id]

\* the discovery events among the first n delivered events
DiscoveryCount(n) ==
    Cardinality({j \in 1..n : delivered[j].kind = "DeviceDiscovered"})

\* C16: once the event source is exhausted the run eventually returns Ok,
\* unless a property lookup errors or the receiver is closed; when it returns
\* Ok every delivered event has been taken and the last snapshot published is
\* the accumulated list, one record for every discovery event whose device was
\* resolved, in delivery order.
C16_TerminationOnExhaustion ==
    /\ srcDone ~> (result = "Ok" \/ result = "PropertiesError" \/ rxClosed)
    /\ [](result = "Ok" =>
            /\ pc = "done"
            /\ srcDone
            /\ stream = <<>>
            /\ RecordIds(devices_info) = ResolvedIds
            /\ Len(published) = Len(devices_info)
            /\ published # <<>> => published[Len(published)] = devices_info)

\* the run returned Ok after publishing two records, all of them received
C16_Witness ==
    /\ result = "Ok"
    /\ Len(published) = 2
    /\ chan = <<>>
    /\ ~rxClosed

\* C17: a DeviceDiscovered event whose peripheral lookup fails is skipped:
\* nothing is appended, nothing is sent, the run does not return and the loop
\* goes on to the next event; so there are never more snapshots than
\* discovery events taken, and there can be fewer.
C17_UnresolvedDeviceSkipped ==
    /\ [][(pc = "peripheral" /\ scanVars' # scanVars /\ resolved' = resolved) =>
            (/\ pc' = "next"
             /\ result' = "running"
             /\ event' = NoEvent
             /\ devices_info' = devices_info
             /\ published' = published)]_vars
    /\ [](Len(devices_info) <= Len(resolved))
    /\ [](Len(published) <= DiscoveryCount(consumed))

\* a run that ended with Ok and an open receiver published fewer snapshots
\* than it took discovery events
C17_Witness ==
    /\ result = "Ok"
    /\ ~rxClosed
    /\ Len(published) = 1
    /\ DiscoveryCount(consumed) = 2

\* C18: each time the next event is awaited as many snapshots have been sent
\* as records appended; the k-th snapshot is not empty, holds the first k
\* records, and ends with the record of the k-th resolved discovery event; at
\* most one appended record is waiting for its send.
C18_OneSendPerAppend ==
    /\ pc = "next" => Len(published) = Len(devices_info)
    /\ Len(published) <= Len(devices_info)
    /\ Len(devices_info) <= Len(published) + 1
    /\ Len(devices_info) = Len(published) + 1 => pc \in {"send", "done"}
    /\ \A k \in 1..Len(published) :
         /\ published[k] # <<>>
         /\ published[k] = SubSeq(devices_info, 1, k)
         /\ published[k][Len(published[k])].id = delivered[resolved[k]].id

\* the loop is back at the head after two appends and two sends
C18_Witness ==
    /\ pc = "next"
    /\ Len(published) = 2
    /\ Len(devices_info) = 2

\* C19: the run returns the send error only in a send for a discovery event
\* in hand. With the receiver closed, the loop at its head still takes the
\* next event, and returns there only on exhaustion; an event that is not a
\* discovery, or whose device is not resolved, is passed over without a
\* return; held by a set pause flag with an event in hand it does not return.
C19_ClosureNoticedAtSend ==
    /\ [][(result' = "SendError" /\ result # "SendError") =>
            (pc = "send" /\ rxClosed /\ event.kind = "DeviceDiscovered")]_vars
    /\ [][(rxClosed /\ pc = "next" /\ scanVars' # scanVars) =>
            IF stream # <<>>
            THEN consumed' = consumed + 1 /\ pc' = "pause" /\ result' = "running"
            ELSE result' = "Ok"]_vars
    /\ [][(rxClosed /\ pc \in {"pause", "peripheral"}) =>
            (result' = "running" /\ published' = published)]_vars
    /\ [][(rxClosed /\ pc = "pause" /\ pause_signal) =>
            (pc' = "pause" /\ result' = "running" /\ event' = event)]_vars

\* the receiver is closed, the run is at the head of the loop with an event
\* queued, and it has not returned
C19_Witness ==
    /\ rxClosed
    /\ pc = "next"
    /\ stream # <<>>
    /\ result = "running"

====
